---- MODULE Spec2Model ----
(***************************************************************************)
(* reqse: a minimal HTTP/1.x message codec.                                *)
(*                                                                         *)
(* Byte strings (&[u8], Vec<u8>) and text (&str, String: always UTF-8 in   *)
(* Rust) are sequences of byte values 0..255.  The parsers, builders and   *)
(* serializers are pure functions and are written as operators that follow *)
(* the source statement by statement; the specifications draw their inputs *)
(* from bounded sets and apply the operations to them.  The connection     *)
(* handler of the example server is a process of its own, run against a    *)
(* client that sends its bytes in chunks.                                  *)
(***************************************************************************)
EXTENDS Integers, Sequences, FiniteSets, TLC

VARIABLES
    pc,        \* position of the caller in the scenario being run
    builder,   \* the builder being staged (request.rs / response.rs)
    msg,       \* the Request or Response the caller holds
    buf,       \* the byte buffer handed to from_bytes / produced by to_bytes
    result,    \* what the last from_bytes call produced
    token,     \* the &str handed to a vocabulary from_str
    value,     \* what the last vocabulary from_str produced
    buf_offset,   \* handle_connection: bytes of buf filled by the reads so far
    stream,    \* bytes the client has sent and the handler has not read yet
    client,    \* what the client at the other end of the connection still does
    written    \* the responses the handler has written to the connection

\* the connection of handle_connection (examples/tokio-hello-world.rs)
conn == <<buf_offset, stream, client, written>>

vars == <<pc, builder, msg, buf, result, token, value, conn>>

(***************************************************************************)
(* Result<T, Error>, Option<T>, and a panic (index out of range, todo!()). *)
(***************************************************************************)
Ok(v) == [tag |-> "Ok", val |-> v]
Err(e) == [tag |-> "Err", err |-> e]
Panic == [tag |-> "Panic"]
NoResult == [tag |-> "NotCalled"]

Some(v) == [some |-> TRUE, val |-> v]
None == [some |-> FALSE]

unwrap_or(o, d) == IF o.some THEN o.val ELSE d

\* error.rs: the three error kinds
Error == {"InvalidHeader", "InvalidUtf8", "NotEnoughData"}

(***************************************************************************)
(* Byte literals of the source.                                            *)
(***************************************************************************)
SP == <<32>>                \* b' ' and " "
CRLF == <<13, 10>>          \* "\r\n"
BOUNDARY == <<13, 10, 13, 10>>   \* b"\r\n\r\n"
COLON_SP == <<58, 32>>      \* ": "
ZERO == <<48>>              \* "0"
SLASH == <<47>>             \* "/"
CONTENT_LENGTH == <<67, 111, 110, 116, 101, 110, 116, 45, 76, 101, 110, 103, 116, 104>>

(***************************************************************************)
(* Slices and str primitives of the Rust standard library, as the code     *)
(* uses them.                                                              *)
(***************************************************************************)
Min(S) == CHOOSE x \in S : \A y \in S : x <= y

Take(s, n) == SubSeq(s, 1, n)
Drop(s, n) == SubSeq(s, n + 1, Len(s))

\* 1-based position of the first occurrence of pat in s, 0 when there is none
Find(s, pat) ==
    LET I == {i \in 1..(Len(s) - Len(pat) + 1) : SubSeq(s, i, i + Len(pat) - 1) = pat}
    IN  IF I = {} THEN 0 ELSE Min(I)

\* str::split_once(pat): Some((before, after)) around the first occurrence
split_once(s, pat) ==
    LET i == Find(s, pat)
    IN  IF i = 0 THEN None
        ELSE Some(<<Take(s, i - 1), Drop(s, i - 1 + Len(pat))>>)

\* str::split(pat): every piece between occurrences, empty pieces included
RECURSIVE split(_, _)
split(s, pat) ==
    LET i == Find(s, pat)
    IN  IF i = 0 THEN <<s>>
        ELSE <<Take(s, i - 1)>> \o split(Drop(s, i - 1 + Len(pat)), pat)

\* char::is_whitespace (Unicode White_Space), by UTF-8 encoding
IsAsciiWs(b) == b \in {9, 10, 11, 12, 13, 32}
Ws2 == {<<194, 133>>, <<194, 160>>}
Ws3 == {<<225, 154, 128>>, <<226, 128, 168>>, <<226, 128, 169>>, <<226, 128, 175>>,
        <<226, 129, 159>>, <<227, 128, 128>>}
       \cup {<<226, 128, x>> : x \in 128..138}

\* byte length of the whitespace character s starts with, 0 when it starts with none
WsAtStart(s) ==
    IF Len(s) >= 1 /\ IsAsciiWs(s[1]) THEN 1
    ELSE IF Len(s) >= 2 /\ Take(s, 2) \in Ws2 THEN 2
    ELSE IF Len(s) >= 3 /\ Take(s, 3) \in Ws3 THEN 3
    ELSE 0

\* byte length of the whitespace character s ends with, 0 when it ends with none
WsAtEnd(s) ==
    LET n == Len(s)
    IN  IF n >= 1 /\ IsAsciiWs(s[n]) THEN 1
        ELSE IF n >= 2 /\ SubSeq(s, n - 1, n) \in Ws2 THEN 2
        ELSE IF n >= 3 /\ SubSeq(s, n - 2, n) \in Ws3 THEN 3
        ELSE 0

RECURSIVE trim_start(_)
trim_start(s) == IF WsAtStart(s) = 0 THEN s ELSE trim_start(Drop(s, WsAtStart(s)))

RECURSIVE trim_end(_)
trim_end(s) == IF WsAtEnd(s) = 0 THEN s ELSE trim_end(Take(s, Len(s) - WsAtEnd(s)))

\* str::trim
trim(s) == trim_end(trim_start(s))

\* str::split_whitespace: the maximal runs of non-whitespace characters
RECURSIVE split_whitespace(_)
split_whitespace(s) ==
    LET t == trim_start(s)
        W == {i \in 1..Len(t) : WsAtStart(Drop(t, i - 1)) > 0}
        e == IF W = {} THEN Len(t) + 1 ELSE Min(W)
    IN  IF t = <<>> THEN <<>>
        ELSE <<Take(t, e - 1)>> \o split_whitespace(Drop(t, e - 1))

\* std::str::from_utf8(..).ok(): well-formed UTF-8 (Unicode table 3-7)
IsCont(b) == b \in 128..191

Utf8CharLen(s) ==
    LET b == s[1]
        n == Len(s)
    IN  IF b < 128 THEN 1
        ELSE IF b \in 194..223 /\ n >= 2 /\ IsCont(s[2]) THEN 2
        ELSE IF /\ n >= 3
                /\ IsCont(s[3])
                /\ \/ b = 224 /\ s[2] \in 160..191
                   \/ b \in (225..236) \cup (238..239) /\ IsCont(s[2])
                   \/ b = 237 /\ s[2] \in 128..159
             THEN 3
        ELSE IF /\ n >= 4
                /\ IsCont(s[3])
                /\ IsCont(s[4])
                /\ \/ b = 240 /\ s[2] \in 144..191
                   \/ b \in 241..243 /\ IsCont(s[2])
                   \/ b = 244 /\ s[2] \in 128..143
             THEN 4
        ELSE 0

\* a decoding that never fails (String::from_utf8_lossy)
from_utf8_lossy_ok(s) == TRUE

RECURSIVE from_utf8_ok(_)
from_utf8_ok(s) ==
    IF s = <<>> THEN TRUE
    ELSE IF Utf8CharLen(s) = 0 THEN FALSE
    ELSE from_utf8_ok(Drop(s, Utf8CharLen(s)))

\* <usize as FromStr>::from_str(..).ok(): an optional '+', then one or more
\* ASCII digits.  (Digit strings of the bounded inputs stay far below
\* usize::MAX, so the overflow error of the real parser is never met.)
IsDigit(b) == b \in 48..57

RECURSIVE DigitsValue(_)
DigitsValue(s) ==
    IF s = <<>> THEN 0
    ELSE 10 * DigitsValue(Take(s, Len(s) - 1)) + (s[Len(s)] - 48)

usize_parse(s) ==
    LET d == IF Len(s) > 0 /\ s[1] = 43 THEN Tail(s) ELSE s
    IN  IF d = <<>> \/ \E i \in 1..Len(d) : ~IsDigit(d[i]) THEN None
        ELSE Some(DigitsValue(d))

\* usize::to_string: decimal digits, no sign, no leading zero
RECURSIVE usize_to_string(_)
usize_to_string(n) ==
    IF n < 10 THEN <<48 + n>>
    ELSE usize_to_string(n \div 10) \o <<48 + (n % 10)>>

(***************************************************************************)
(* Enumerated vocabulary: method.rs, version.rs, status.rs                 *)
(***************************************************************************)
GET == <<71, 69, 84>>
POST == <<80, 79, 83, 84>>
PUT == <<80, 85, 84>>
DELETE == <<68, 69, 76, 69, 84, 69>>

Method == {"Get", "Post", "Put", "Delete"}

\* a from_str that trims its input before matching
Method_from_str_trimming(s) ==
    CASE trim(s) = GET -> Ok("Get")
      [] trim(s) = POST -> Ok("Post")
      [] trim(s) = PUT -> Ok("Put")
      [] trim(s) = DELETE -> Ok("Delete")
      [] OTHER -> Err("InvalidHeader")

Method_from_str(s) ==
    CASE s = GET -> Ok("Get")
      [] s = POST -> Ok("Post")
      [] s = PUT -> Ok("Put")
      [] s = DELETE -> Ok("Delete")
      [] OTHER -> Err("InvalidHeader")

Method_to_static_str(m) ==
    CASE m = "Get" -> GET
      [] m = "Post" -> POST
      [] m = "Put" -> PUT
      [] m = "Delete" -> DELETE

HTTP10 == <<72, 84, 84, 80, 47, 49, 46, 48>>
HTTP11 == <<72, 84, 84, 80, 47, 49, 46, 49>>
HTTP2 == <<72, 84, 84, 80, 47, 50>>
HTTP3 == <<72, 84, 84, 80, 47, 51>>

Version == {"Http0", "Http1", "Http2", "Http3"}

\* the version a builder falls back to, HTTP/1.1: written Version::Http11 in
\* request.rs / response.rs, the #[default] variant Http1 of version.rs
Version_default == "Http1"

\* a from_str that falls back to the default version on an unknown text
Version_from_str_defaulting(s) ==
    CASE s = HTTP10 -> Ok("Http0")
      [] s = HTTP11 -> Ok("Http1")
      [] s = HTTP2 -> Ok("Http2")
      [] s = HTTP3 -> Ok("Http3")
      [] OTHER -> Ok(Version_default)

Version_from_str(s) ==
    CASE s = HTTP10 -> Ok("Http0")
      [] s = HTTP11 -> Ok("Http1")
      [] s = HTTP2 -> Ok("Http2")
      [] s = HTTP3 -> Ok("Http3")
      [] OTHER -> Err("InvalidHeader")

Version_to_static(v) ==
    CASE v = "Http0" -> HTTP10
      [] v = "Http1" -> HTTP11
      [] v = "Http2" -> HTTP2
      [] v = "Http3" -> HTTP3

Status == {"Ok", "MultipleChoices", "BadRequest", "Unauthorized", "Forbidden",
           "NotFound", "MethodNotAllowed", "IamATeapot", "InternalServerError",
           "NotImplemented", "ServiceUnavailable", "HttpVersionNotSupported"}

\* Status::from_str: the text before the first space of the trimmed input is
\* matched against eleven codes ("501" is not among the arms); anything else
\* falls through to todo!(), which panics.
Status_from_str(s) ==
    LET so == split_once(trim(s), SP)
        num == so.val[1]
    IN  IF ~so.some THEN Err("InvalidHeader")
        ELSE CASE num = <<50, 48, 48>> -> Ok("Ok")
               [] num = <<51, 48, 48>> -> Ok("MultipleChoices")
               [] num = <<52, 48, 48>> -> Ok("BadRequest")
               [] num = <<52, 48, 49>> -> Ok("Unauthorized")
               [] num = <<52, 48, 51>> -> Ok("Forbidden")
               [] num = <<52, 48, 52>> -> Ok("NotFound")
               [] num = <<52, 48, 53>> -> Ok("MethodNotAllowed")
               [] num = <<52, 49, 56>> -> Ok("IamATeapot")
               [] num = <<53, 48, 48>> -> Ok("InternalServerError")
               [] num = <<53, 48, 51>> -> Ok("ServiceUnavailable")
               [] num = <<53, 48, 53>> -> Ok("HttpVersionNotSupported")
               [] OTHER -> Panic

Status_to_static_str(st) ==
    CASE st = "Ok" -> <<50, 48, 48, 32, 79, 75>>
      [] st = "MultipleChoices" ->
            <<51, 48, 48, 32, 77, 117, 108, 116, 105, 112, 108, 101, 32, 67, 104,
              111, 105, 99, 101, 115>>
      [] st = "BadRequest" ->
            <<52, 48, 48, 32, 66, 97, 100, 32, 82, 101, 113, 117, 101, 115, 116>>
      [] st = "Unauthorized" ->
            <<52, 48, 49, 32, 85, 110, 97, 117, 116, 104, 111, 114, 105, 122, 101,
              100>>
      [] st = "Forbidden" ->
            <<52, 48, 51, 32, 70, 111, 114, 98, 105, 100, 100, 101, 110>>
      [] st = "NotFound" ->
            <<52, 48, 52, 32, 78, 111, 116, 32, 70, 111, 117, 110, 100>>
      [] st = "MethodNotAllowed" ->
            <<52, 48, 53, 32, 77, 101, 116, 104, 111, 100, 32, 78, 111, 116, 32,
              65, 108, 108, 111, 119, 101, 100>>
      [] st = "IamATeapot" ->
            <<52, 49, 56, 32, 73, 109, 32, 97, 32, 116, 101, 97, 112, 111, 116>>
      [] st = "InternalServerError" ->
            <<53, 48, 48, 32, 73, 110, 116, 101, 114, 110, 97, 108, 32, 83, 101,
              114, 118, 101, 114, 32, 69, 114, 114, 111, 114>>
      [] st = "NotImplemented" ->
            <<53, 48, 49, 32, 78, 111, 116, 32, 73, 109, 112, 108, 101, 109, 101,
              110, 116, 101, 100>>
      [] st = "ServiceUnavailable" ->
            <<53, 48, 51, 32, 83, 101, 114, 118, 105, 99, 101, 32, 85, 110, 97,
              118, 97, 105, 108, 97, 98, 108, 101>>
      [] st = "HttpVersionNotSupported" ->
            <<53, 48, 53, 32, 72, 84, 84, 80, 32, 86, 101, 114, 115, 105, 111,
              110, 32, 78, 111, 116, 32, 83, 117, 112, 112, 111, 114, 116, 101,
              100>>

(***************************************************************************)
(* HashMap<String, String>: a function from keys to values.  Its iteration *)
(* order is unspecified (RandomState), so every serialization takes the    *)
(* order as an input.                                                      *)
(***************************************************************************)
HashMap_new == <<>>

insert(h, k, v) == [x \in DOMAIN h \cup {k} |-> IF x = k THEN v ELSE h[x]]

remove(h, k) == [x \in DOMAIN h \ {k} |-> h[x]]

get(h, k) == IF k \in DOMAIN h THEN Some(h[k]) ELSE None

\* the orders in which iter() / into_iter() may yield the entries of h
IterOrders(h) ==
    LET n == Cardinality(DOMAIN h)
    IN  {o \in [1..n -> DOMAIN h] : \A i, j \in 1..n : i # j => o[i] # o[j]}

\* a collect that skips the lines without a delimiter instead of failing
collect_skipping(pairs) ==
    LET kept == SelectSeq(pairs, LAMBDA p : p.some)
        n == Len(kept)
        K == {kept[i].val[1] : i \in 1..n}
        last(k) == CHOOSE i \in 1..n :
                       /\ kept[i].val[1] = k
                       /\ \A j \in 1..n : kept[j].val[1] = k => j <= i
    IN  Ok([k \in K |-> kept[last(k)].val[2]])

\* collect::<Result<HashMap<_, _>, _>>() over the split lines, in line order:
\* the first line without a delimiter is the error, a repeated key keeps the
\* value of its last line
collect(pairs) ==
    LET n == Len(pairs)
        K == {pairs[i].val[1] : i \in 1..n}
        last(k) == CHOOSE i \in 1..n :
                       /\ pairs[i].val[1] = k
                       /\ \A j \in 1..n : pairs[j].val[1] = k => j <= i
    IN  IF \E i \in 1..n : ~pairs[i].some THEN Err("InvalidHeader")
        ELSE Ok([k \in K |-> pairs[last(k)].val[2]])

NonEmpty(line) == line # <<>>

\* request.rs 234-239, response.rs 183-188 (the same expression):
\* headers.trim().split("\r\n").filter(non-empty).map(split_once(": ")).collect()
parse_headers(headers) ==
    LET lines == SelectSeq(split(trim(headers), CRLF), NonEmpty)
    IN  collect([i \in 1..Len(lines) |-> split_once(lines[i], COLON_SP)])

\* a search that takes the first CR LF for the end of the header region
find_boundary_first_crlf(buffer) ==
    LET i == Find(buffer, CRLF)
    IN  IF i = 0 THEN None ELSE Some((i - 1) + 2)

\* buffer.windows(4).enumerate().find(|w| w == b"\r\n\r\n").map(|(i, _)| i + 4):
\* the number of bytes up to and including the first boundary
find_boundary(buffer) ==
    LET i == Find(buffer, BOUNDARY)
    IN  IF i = 0 THEN None ELSE Some((i - 1) + 4)

\* headers.get("Content-Length").unwrap_or(&"0").parse::<usize>().ok()
content_len_of(headers) == usize_parse(unwrap_or(get(headers, CONTENT_LENGTH), ZERO))

\* the guard in front of the body slice, as written in both parsers
not_enough_data(content_len, body) == content_len < Len(body)

\* a slice that stops at the end of the body instead of panicking
slice_to_clamped(body, content_len) ==
    Ok(Take(body, Min({content_len, Len(body)})))

\* &body[..content_len] panics when content_len exceeds body.len()
slice_to(body, content_len) ==
    IF content_len > Len(body) THEN Panic ELSE Ok(Take(body, content_len))

(***************************************************************************)
(* request.rs                                                              *)
(***************************************************************************)
Request_from_bytes(buffer) ==
    LET mid == find_boundary(buffer)
    IN  IF ~mid.some THEN Err("NotEnoughData") ELSE
    LET header == Take(buffer, mid.val)
        body == Drop(buffer, mid.val)
    IN  IF ~from_utf8_ok(header) THEN Err("InvalidUtf8") ELSE
    LET so == split_once(header, CRLF)
    IN  IF ~so.some THEN Err("InvalidHeader") ELSE
    LET request_line == split_whitespace(so.val[1])
        headers == so.val[2]
    IN  IF Len(request_line) < 1 THEN Err("InvalidHeader") ELSE
    LET method == Method_from_str(request_line[1])
    IN  IF method.tag # "Ok" THEN method ELSE
        IF Len(request_line) < 2 THEN Err("InvalidHeader") ELSE
    LET uri == request_line[2]
    IN  IF Len(request_line) < 3 THEN Err("InvalidHeader") ELSE
    LET version == Version_from_str(request_line[3])
    IN  IF version.tag # "Ok" THEN version ELSE
        IF Len(request_line) > 3 THEN Err("InvalidHeader") ELSE
    LET hs == parse_headers(headers)
    IN  IF hs.tag # "Ok" THEN hs ELSE
    LET content_len == content_len_of(hs.val)
    IN  IF ~content_len.some THEN Err("InvalidHeader") ELSE
        IF not_enough_data(content_len.val, body) THEN Err("NotEnoughData") ELSE
    LET sliced == slice_to(body, content_len.val)
    IN  IF sliced.tag # "Ok" THEN sliced ELSE
        Ok([version |-> version.val, uri |-> uri, method |-> method.val,
            headers |-> hs.val, body |-> sliced.val])

\* the "\r\n" key ": " value run that to_bytes / finish emit, in iteration order
RECURSIVE header_lines(_, _)
header_lines(h, order) ==
    IF order = <<>> THEN <<>>
    ELSE CRLF \o Head(order) \o COLON_SP \o h[Head(order)]
         \o header_lines(h, Tail(order))

Request_to_bytes(self, order) ==
    Method_to_static_str(self.method) \o SP \o self.uri \o SP
    \o Version_to_static(self.version)
    \o header_lines(self.headers, order)
    \o BOUNDARY \o self.body

RequestBuilder_new(method) ==
    [version |-> None, uri |-> None, method |-> method,
     headers |-> HashMap_new, body |-> None]

\* a finish that writes the length header whatever the body is
RequestBuilder_finish_always_length(self) ==
    LET uri == unwrap_or(self.uri, SLASH)
        version == unwrap_or(self.version, Version_default)
        body == unwrap_or(self.body, <<>>)
        headers == insert(self.headers, CONTENT_LENGTH, usize_to_string(Len(body)))
    IN  [version |-> version, uri |-> uri, method |-> self.method,
         headers |-> headers, body |-> body]

RequestBuilder_finish(self) ==
    LET uri == unwrap_or(self.uri, SLASH)
        version == unwrap_or(self.version, Version_default)
        body == unwrap_or(self.body, <<>>)
        headers == IF body = <<>> THEN remove(self.headers, CONTENT_LENGTH)
                   ELSE insert(self.headers, CONTENT_LENGTH, usize_to_string(Len(body)))
    IN  [version |-> version, uri |-> uri, method |-> self.method,
         headers |-> headers, body |-> body]

(***************************************************************************)
(* response.rs                                                             *)
(***************************************************************************)
Response_from_bytes(buffer) ==
    LET mid == find_boundary(buffer)
    IN  IF ~mid.some THEN Err("NotEnoughData") ELSE
    LET header == Take(buffer, mid.val)
        body == Drop(buffer, mid.val)
    IN  IF ~from_utf8_ok(header) THEN Err("InvalidUtf8") ELSE
    LET so == split_once(header, CRLF)
    IN  IF ~so.some THEN Err("InvalidHeader") ELSE
    LET vs == split_once(so.val[1], SP)
    IN  IF ~vs.some THEN Err("InvalidHeader") ELSE
    LET version == Version_from_str(trim(vs.val[1]))
    IN  IF version.tag # "Ok" THEN version ELSE
    LET status == Status_from_str(trim(vs.val[2]))
    IN  IF status.tag # "Ok" THEN status ELSE
    LET hs == parse_headers(so.val[2])
    IN  IF hs.tag # "Ok" THEN hs ELSE
    LET content_len == content_len_of(hs.val)
    IN  IF ~content_len.some THEN Err("InvalidHeader") ELSE
        IF not_enough_data(content_len.val, body) THEN Err("NotEnoughData") ELSE
    LET sliced == IF content_len.val > 0 THEN slice_to(body, content_len.val)
                  ELSE Ok(<<>>)
    IN  IF sliced.tag # "Ok" THEN sliced ELSE
        Ok([version |-> version.val, status |-> status.val, header |-> hs.val,
            body |-> IF content_len.val > 0 THEN Some(sliced.val) ELSE None])

Response_to_bytes(self, order) ==
    Version_to_static(self.version) \o SP \o Status_to_static_str(self.status)
    \o header_lines(self.header, order)
    \o BOUNDARY \o unwrap_or(self.body, <<>>)

ResponseBuilder_new(status) ==
    [version |-> None, status |-> status, header |-> HashMap_new, body |-> None]

\* the length header is inserted whenever a body was set, "0" for an empty one
ResponseBuilder_finish(self) ==
    LET version == unwrap_or(self.version, Version_default)
        header == IF self.body.some
                  THEN insert(self.header, CONTENT_LENGTH,
                              usize_to_string(Len(self.body.val)))
                  ELSE remove(self.header, CONTENT_LENGTH)
    IN  [version |-> version, status |-> self.status, header |-> header,
         body |-> self.body]

(***************************************************************************)
(* header_map.rs: a header block kept as text and scanned on every lookup. *)
(***************************************************************************)
\* HeaderMap::new: the block is trimmed, and accepted when no non-empty line
\* of it lacks ": "
HeaderMap_new(header) ==
    LET trimmed == trim(header)
        lines == SelectSeq(split(trimmed, CRLF), NonEmpty)
        err == \E i \in 1..Len(lines) : ~split_once(lines[i], COLON_SP).some
    IN  IF err THEN Err("InvalidHeader") ELSE Ok([inner |-> trimmed])

HeaderMap_iter(self) == [inner |-> self.inner]

\* HeaderMapIter::next: the item returned and the iterator it leaves.  The
\* line cut off at the first CR LF is split on CR LF again (line 17), not on
\* ": "; a line holds no CR LF, so the item is None.
HeaderMapIter_next(self) ==
    IF self.inner = <<>> THEN [item |-> None, self |-> self]
    ELSE LET lr == unwrap_or(split_once(self.inner, CRLF), <<self.inner, <<>>>>)
         IN  [item |-> split_once(lr[1], CRLF), self |-> [inner |-> lr[2]]]

\* Iterator::count: next() until it returns None
RECURSIVE HeaderMapIter_count(_)
HeaderMapIter_count(self) ==
    LET n == HeaderMapIter_next(self)
    IN  IF n.item.some THEN 1 + HeaderMapIter_count(n.self) ELSE 0

\* Iterator::find(|(k, _)| *k == key): the first item whose name is key
RECURSIVE HeaderMapIter_find(_, _)
HeaderMapIter_find(self, key) ==
    LET n == HeaderMapIter_next(self)
    IN  IF ~n.item.some THEN None
        ELSE IF n.item.val[1] = key THEN n.item
        ELSE HeaderMapIter_find(n.self, key)

HeaderMap_len(self) == HeaderMapIter_count(HeaderMap_iter(self))

HeaderMap_get(self, key) ==
    LET found == HeaderMapIter_find(HeaderMap_iter(self), key)
    IN  IF found.some THEN Some(found.val[2]) ELSE None

HeaderMap_is_empty(self) == HeaderMap_len(self) = 0

HeaderMap_contains(self, key) == HeaderMap_get(self, key).some

(***************************************************************************)
(* response_builder.rs: the builder whose finish() gives the bytes, and    *)
(* examples/tokio-hello-world.rs: the router of the example server.        *)
(***************************************************************************)
HELLO_WORLD == <<72, 101, 108, 108, 111, 32, 87, 111, 114, 108, 100>>   \* "Hello World"
HEALTH_CHECK == <<47, 104, 101, 97, 108, 116, 104, 95, 99, 104, 101, 99, 107>>   \* "/health_check"

\* ResponseBuilder::new and the constructors ok / bad_request / not_found
response_builder_new(status) ==
    [version |-> Version_default, status |-> status, header |-> HashMap_new,
     body |-> <<>>]

\* ResponseBuilder::finish: the length header is set or removed, then status
\* line, header lines in iteration order, boundary and body are written
response_builder_header(self) ==
    IF self.body = <<>> THEN remove(self.header, CONTENT_LENGTH)
    ELSE insert(self.header, CONTENT_LENGTH, usize_to_string(Len(self.body)))

response_builder_finish(self, order) ==
    Version_to_static(self.version) \o SP \o Status_to_static_str(self.status)
    \o header_lines(response_builder_header(self), order)
    \o BOUNDARY \o self.body

\* router: GET / says hello, GET /health_check is an empty 200, the rest 404
router(request) ==
    CASE request.method = "Get" /\ request.uri = SLASH ->
             [response_builder_new("Ok") EXCEPT !.body = HELLO_WORLD]
      [] request.method = "Get" /\ request.uri = HEALTH_CHECK ->
             response_builder_new("Ok")
      [] OTHER -> response_builder_new("NotFound")

\* let mut buf = [0 as u8; 1028]
BufLen == 1028

(***************************************************************************)
(* Bounds of the inputs.                                                   *)
(***************************************************************************)
MaxBody == 2          \* bodies (and body regions of a buffer) of 0..MaxBody bytes
MaxHeaders == 2       \* entries a builder's header map may hold
MaxHeaderLines == 2   \* header lines of a received buffer
MaxRaw == 4           \* length of the unstructured buffers
MaxTokLen == 3        \* length of the unstructured vocabulary tokens
MaxMessages == 2      \* messages a client sends on one connection
FirstChunk == 16      \* bytes of a message that arrive first when it is sent in two parts

(***************************************************************************)
(* Inputs of the builders.                                                 *)
(***************************************************************************)
\* n body bytes; every other one, the first included, is 0xFF, which no UTF-8
\* text contains
BodyOf(n) == [i \in 1..n |-> IF i % 2 = 1 THEN 255 ELSE 120]

Bodies == {BodyOf(n) : n \in 0..MaxBody}

Uris ==
    { <<47>>,   \* "/"
      <<>>,   \* ""
      <<47, 97, 32, 98>> }   \* "/a b"

HeaderKeys ==
    { <<65>>,   \* "A"
      <<32, 66>>,   \* " B"
      <<67, 111, 110, 116, 101, 110, 116, 45, 76, 101, 110, 103, 116, 104>> }   \* "Content-Length"

HeaderValues ==
    { <<49>>,   \* "1"
      <<>>,   \* ""
      <<55, 32>> }   \* "7 "

(***************************************************************************)
(* Inputs of the parsers: buffers as a peer may send them.                 *)
(***************************************************************************)
RequestLines ==
    { <<71, 69, 84, 32, 47, 32, 72, 84, 84, 80, 47, 49, 46, 49>>,   \* "GET / HTTP/1.1"
      <<80, 79, 83, 84, 32, 47, 97, 32, 72, 84, 84, 80, 47, 49, 46, 48>>,   \* "POST /a HTTP/1.0"
      <<71, 69, 84, 32, 32, 32, 47, 9, 32, 72, 84, 84, 80, 47, 49, 46, 49>> }   \* "GET   /<TAB> HTTP/1.1"

StatusLines ==
    { <<72, 84, 84, 80, 47, 49, 46, 49, 32, 50, 48, 48, 32, 79, 75>>,   \* "HTTP/1.1 200 OK"
      <<72, 84, 84, 80, 47, 50, 32, 52, 48, 52, 32, 78, 111, 116, 32, 70, 111, 117, 110, 100>> }   \* "HTTP/2 404 Not Found"

OtherStartLines ==
    { <<70, 79, 79, 32, 47, 32, 72, 84, 84, 80, 47, 49, 46, 49>>,   \* "FOO / HTTP/1.1"
      <<103, 101, 116, 32, 47, 32, 72, 84, 84, 80, 47, 49, 46, 49>>,   \* "get / HTTP/1.1"
      <<71, 69, 84, 32, 47>>,   \* "GET /"
      <<71, 69, 84, 32, 47, 32, 72, 84, 84, 80, 47, 49, 46, 49, 32, 120>>,   \* "GET / HTTP/1.1 x"
      <<71, 69, 84, 32, 47, 32, 72, 84, 84, 80, 47, 57>>,   \* "GET / HTTP/9"
      <<71, 69, 84, 32, 47, 255, 32, 72, 84, 84, 80, 47, 49, 46, 49>>,   \* "GET /ÿ HTTP/1.1"
      <<71, 69, 84, 32, 47, 195, 32, 72, 84, 84, 80, 47, 49, 46, 49>>,   \* "GET /" 0xC3 " HTTP/1.1"
      <<>>,   \* ""
      <<72, 84, 84, 80, 47, 49, 46, 49, 32, 53, 48, 49, 32, 78, 111, 116, 32, 73, 109, 112, 108, 101, 109, 101, 110, 116, 101, 100>>,   \* "HTTP/1.1 501 Not Implemented"
      <<72, 84, 84, 80, 47, 49, 46, 49, 32, 57, 57, 57, 32, 70, 111, 111>>,   \* "HTTP/1.1 999 Foo"
      <<72, 84, 84, 80, 47, 49, 46, 49, 32, 50, 48, 48>>,   \* "HTTP/1.1 200"
      <<72, 84, 84, 80, 47, 57, 32, 57, 57, 57, 32, 70, 111, 111>> }   \* "HTTP/9 999 Foo"

HeaderLines ==
    { <<67, 111, 110, 116, 101, 110, 116, 45, 76, 101, 110, 103, 116, 104, 58, 32, 49>>,   \* "Content-Length: 1"
      <<67, 111, 110, 116, 101, 110, 116, 45, 76, 101, 110, 103, 116, 104, 58, 32, 120>>,   \* "Content-Length: x"
      <<65, 58, 32, 49>>,   \* "A: 1"
      <<32, 66, 58, 32, 50>>,   \* " B: 2"
      <<65, 58, 32, 50, 32>>,   \* "A: 2 "
      <<67, 58, 32>>,   \* "C: "
      <<68, 58, 32, 195, 169>>,   \* "D: é" (0xC3 0xA9)
      <<75, 101, 121, 50>> }   \* "Key2"

\* what follows the last header line: the boundary, a lone CR LF, nothing
Ends == {BOUNDARY, CRLF, <<>>}

RECURSIVE JoinLines(_)
JoinLines(ls) == IF ls = <<>> THEN <<>> ELSE CRLF \o Head(ls) \o JoinLines(Tail(ls))

HeaderBlocks(max) ==
    UNION {[1..n -> HeaderLines] : n \in 0..max}

\* the byte values the unstructured buffers are made of: CR, LF, 'a', 0xFF
RawBytes == {13, 10, 97, 255}

RawBuffers == UNION {[1..n -> RawBytes] : n \in 0..MaxRaw}

Buffers ==
    {sl \o JoinLines(hb) \o e \o b :
        sl \in RequestLines \cup StatusLines, hb \in HeaderBlocks(MaxHeaderLines),
        e \in Ends, b \in Bodies}
    \cup
    {sl \o JoinLines(hb) \o e \o b :
        sl \in OtherStartLines, hb \in HeaderBlocks(1), e \in Ends, b \in Bodies}
    \cup RawBuffers

(***************************************************************************)
(* Inputs of HeaderMap: header blocks as text, and the names looked up.    *)
(***************************************************************************)
\* the lines joined by CR LF, with or without a CR LF after the last one
HeaderTexts ==
    {Drop(JoinLines(hb), Len(CRLF)) \o e :
        hb \in HeaderBlocks(MaxHeaderLines), e \in {<<>>, CRLF}}

LookupKeys ==
    { <<65>>,   \* "A"
      <<67>>,   \* "C"
      <<67, 111, 110, 116, 101, 110, 116, 45, 76, 101, 110, 103, 116, 104>>,   \* "Content-Length"
      <<90>> }   \* "Z"

(***************************************************************************)
(* Inputs of the connection handler: what a client sends on a connection.  *)
(***************************************************************************)
GetRoot == <<71, 69, 84, 32, 47, 32, 72, 84, 84, 80, 47, 49, 46, 49, 13, 10, 13, 10>>   \* "GET / HTTP/1.1\r\n\r\n"
PostWithBody ==
    <<80, 79, 83, 84, 32, 47, 97, 32, 72, 84, 84, 80, 47, 49, 46, 48, 13, 10, 67, 111, 110, 116, 101, 110, 116, 45, 76, 101, 110, 103, 116, 104, 58, 32, 49, 13, 10, 13, 10, 120>>   \* "POST /a HTTP/1.0\r\nContent-Length: 1\r\n\r\nx"
FooRoot == <<70, 79, 79, 32, 47, 32, 72, 84, 84, 80, 47, 49, 46, 49, 13, 10, 13, 10>>   \* "FOO / HTTP/1.1\r\n\r\n"
GetLine == <<71, 69, 84, 32, 47, 32, 72, 84, 84, 80, 47, 49, 46, 49>>   \* "GET / HTTP/1.1"

\* a GET request declaring a body of n bytes
GetDeclaring(n) ==
    GetLine \o CRLF \o CONTENT_LENGTH \o COLON_SP \o usize_to_string(n) \o BOUNDARY

\* a GET request whose head and body together are exactly BufLen bytes
ExactFill ==
    LET n == CHOOSE n \in 0..BufLen : Len(GetDeclaring(n)) + n = BufLen
    IN  GetDeclaring(n) \o [i \in 1..n |-> 120]

\* BufLen bytes without a boundary
Filler == [i \in 1..BufLen |-> 97]

\* a GET request declaring more body than the buffer can hold, body not sent
Oversized == GetDeclaring(2 * BufLen)

Messages == {GetRoot, PostWithBody, FooRoot, ExactFill, Filler, Oversized}

\* a message arrives whole or in two parts
Chunkings(m) == {<<m>>, <<Take(m, FirstChunk), Drop(m, FirstChunk)>>}

\* the chunks of up to max messages, in the order the client sends them
RECURSIVE Scripts(_)
Scripts(max) ==
    IF max = 0 THEN {<<>>}
    ELSE {<<>>} \cup {c \o rest : c \in UNION {Chunkings(m) : m \in Messages},
                                  rest \in Scripts(max - 1)}

(***************************************************************************)
(* Inputs of the vocabulary parsers.                                       *)
(***************************************************************************)
Canonical ==
    {Method_to_static_str(m) : m \in Method}
    \cup {Version_to_static(v) : v \in Version}
    \cup {Status_to_static_str(st) : st \in Status}

Lower(s) == [i \in 1..Len(s) |-> IF s[i] \in 65..90 THEN s[i] + 32 ELSE s[i]]

\* near misses of a token: other case, surrounding whitespace, cut short, extended
Variants(s) ==
    {Lower(s), SP \o s, s \o SP, Take(s, Len(s) - 1), s \o <<s[Len(s)]>>,
     <<57>> \o s}

\* the byte values the unstructured tokens are made of: 'G', 'E', 'T', ' ', '2'
TokBytes == {71, 69, 84, 32, 50}

VocabStrings ==
    Canonical
    \cup UNION {Variants(s) : s \in Canonical}
    \cup UNION {[1..n -> TokBytes] : n \in 0..MaxTokLen}

(***************************************************************************)
(* The caller's steps.  A builder scenario stages a builder, finishes it,  *)
(* serializes the message and parses the bytes back; a receive scenario    *)
(* starts from a buffer, parses it, and serializes and re-parses whatever  *)
(* was parsed.                                                             *)
(***************************************************************************)
NoBuilder == [method |-> "none"]
NoMsg == [method |-> "none"]

\* RequestBuilder::version / uri / header / body (request.rs 42-87)
RequestBuilder_version(version) ==
    /\ pc = "req_building"
    /\ builder' = [builder EXCEPT !.version = Some(version)]
    /\ UNCHANGED <<pc, msg, buf, result, token, value, conn>>

RequestBuilder_uri(uri) ==
    /\ pc = "req_building"
    /\ builder' = [builder EXCEPT !.uri = Some(uri)]
    /\ UNCHANGED <<pc, msg, buf, result, token, value, conn>>

RequestBuilder_header(key, val) ==
    /\ pc = "req_building"
    /\ Cardinality(DOMAIN builder.headers \cup {key}) <= MaxHeaders
    /\ builder' = [builder EXCEPT !.headers = insert(@, key, val)]
    /\ UNCHANGED <<pc, msg, buf, result, token, value, conn>>

RequestBuilder_body(body) ==
    /\ pc = "req_building"
    /\ builder' = [builder EXCEPT !.body = Some(body)]
    /\ UNCHANGED <<pc, msg, buf, result, token, value, conn>>

\* RequestBuilder::finish consumes the builder; its last value is kept for reference
FinishRequest ==
    /\ pc = "req_building"
    /\ msg' = RequestBuilder_finish(builder)
    /\ pc' = "req_finished"
    /\ UNCHANGED <<builder, buf, result, token, value, conn>>

\* Request::to_bytes on the finished message, or on the message just parsed
SerializeRequest ==
    /\ \/ pc = "req_finished"
       \/ pc = "req_parsed" /\ result.tag = "Ok"
    /\ LET self == IF pc = "req_finished" THEN msg ELSE result.val
       IN  /\ \E order \in IterOrders(self.headers) :
                 buf' = Request_to_bytes(self, order)
           /\ msg' = self
    /\ pc' = "req_serialized"
    /\ result' = NoResult
    /\ UNCHANGED <<builder, token, value, conn>>

\* Request::from_bytes on the buffer
ParseRequest ==
    /\ pc \in {"received", "req_serialized"}
    /\ result' = Request_from_bytes(buf)
    /\ pc' = IF pc = "received" THEN "req_parsed" ELSE "req_done"
    /\ UNCHANGED <<builder, msg, buf, token, value, conn>>

\* ResponseBuilder::version / header / body (response.rs 48-63)
ResponseBuilder_version(version) ==
    /\ pc = "resp_building"
    /\ builder' = [builder EXCEPT !.version = Some(version)]
    /\ UNCHANGED <<pc, msg, buf, result, token, value, conn>>

ResponseBuilder_header(key, val) ==
    /\ pc = "resp_building"
    /\ Cardinality(DOMAIN builder.header \cup {key}) <= MaxHeaders
    /\ builder' = [builder EXCEPT !.header = insert(@, key, val)]
    /\ UNCHANGED <<pc, msg, buf, result, token, value, conn>>

ResponseBuilder_body(body) ==
    /\ pc = "resp_building"
    /\ builder' = [builder EXCEPT !.body = Some(body)]
    /\ UNCHANGED <<pc, msg, buf, result, token, value, conn>>

FinishResponse ==
    /\ pc = "resp_building"
    /\ msg' = ResponseBuilder_finish(builder)
    /\ pc' = "resp_finished"
    /\ UNCHANGED <<builder, buf, result, token, value, conn>>

SerializeResponse ==
    /\ \/ pc = "resp_finished"
       \/ pc = "resp_parsed" /\ result.tag = "Ok"
    /\ LET self == IF pc = "resp_finished" THEN msg ELSE result.val
       IN  /\ \E order \in IterOrders(self.header) :
                 buf' = Response_to_bytes(self, order)
           /\ msg' = self
    /\ pc' = "resp_serialized"
    /\ result' = NoResult
    /\ UNCHANGED <<builder, token, value, conn>>

ParseResponse ==
    /\ pc \in {"received", "resp_serialized"}
    /\ result' = Response_from_bytes(buf)
    /\ pc' = IF pc = "received" THEN "resp_parsed" ELSE "resp_done"
    /\ UNCHANGED <<builder, msg, buf, token, value, conn>>

\* the vocabulary: from_str on the token at hand, to_static_str on what it gave
ParseMethod ==
    /\ pc = "token"
    /\ value' = Method_from_str(token)
    /\ pc' = "method"
    /\ UNCHANGED <<builder, msg, buf, result, token, conn>>

ParseVersion ==
    /\ pc = "token"
    /\ value' = Version_from_str(token)
    /\ pc' = "version"
    /\ UNCHANGED <<builder, msg, buf, result, token, conn>>

ParseStatus ==
    /\ pc = "token"
    /\ value' = Status_from_str(token)
    /\ pc' = "status"
    /\ UNCHANGED <<builder, msg, buf, result, token, conn>>

Render ==
    /\ pc \in {"method", "version", "status"}
    /\ value.tag = "Ok"
    /\ token' = CASE pc = "method" -> Method_to_static_str(value.val)
                  [] pc = "version" -> Version_to_static(value.val)
                  [] pc = "status" -> Status_to_static_str(value.val)
    /\ value' = NoResult
    /\ pc' = "token"
    /\ UNCHANGED <<builder, msg, buf, result, conn>>

(***************************************************************************)
(* Specifications.                                                         *)
(***************************************************************************)
\* no connection is being handled
NoClient == [todo |-> <<>>, sent |-> <<>>, open |-> FALSE, persistent |-> FALSE]

Unconnected ==
    /\ buf_offset = 0
    /\ stream = <<>>
    /\ client = NoClient
    /\ written = <<>>

\* a request is built (request.rs), serialized and parsed back
InitRequest ==
    /\ pc = "req_building"
    /\ builder \in {RequestBuilder_new(m) : m \in Method}
    /\ msg = NoMsg
    /\ buf = <<>>
    /\ result = NoResult
    /\ token = <<>>
    /\ value = NoResult
    /\ Unconnected

NextRequest ==
    \/ \E v \in Version : RequestBuilder_version(v)
    \/ \E u \in Uris : RequestBuilder_uri(u)
    \/ \E k \in HeaderKeys, v \in HeaderValues : RequestBuilder_header(k, v)
    \/ \E b \in Bodies : RequestBuilder_body(b)
    \/ FinishRequest
    \/ SerializeRequest
    \/ ParseRequest

SpecRequest == InitRequest /\ [][NextRequest]_vars

\* a response is built (response.rs), serialized and parsed back
InitResponse ==
    /\ pc = "resp_building"
    /\ builder \in {ResponseBuilder_new(st) : st \in Status}
    /\ msg = NoMsg
    /\ buf = <<>>
    /\ result = NoResult
    /\ token = <<>>
    /\ value = NoResult
    /\ Unconnected

NextResponse ==
    \/ \E v \in Version : ResponseBuilder_version(v)
    \/ \E k \in HeaderKeys, v \in HeaderValues : ResponseBuilder_header(k, v)
    \/ \E b \in Bodies : ResponseBuilder_body(b)
    \/ FinishResponse
    \/ SerializeResponse
    \/ ParseResponse

SpecResponse == InitResponse /\ [][NextResponse]_vars

\* a buffer is received and parsed as a request or as a response
InitReceive ==
    /\ pc = "received"
    /\ buf \in Buffers
    /\ builder = NoBuilder
    /\ msg = NoMsg
    /\ result = NoResult
    /\ token = <<>>
    /\ value = NoResult
    /\ Unconnected

NextReceive ==
    \/ ParseRequest
    \/ ParseResponse
    \/ SerializeRequest
    \/ SerializeResponse

SpecReceive == InitReceive /\ [][NextReceive]_vars

\* a token is parsed by each vocabulary type and rendered again
InitVocab ==
    /\ pc = "token"
    /\ token \in VocabStrings
    /\ value = NoResult
    /\ builder = NoBuilder
    /\ msg = NoMsg
    /\ buf = <<>>
    /\ result = NoResult
    /\ Unconnected

NextVocab ==
    \/ ParseMethod
    \/ ParseVersion
    \/ ParseStatus
    \/ Render

SpecVocab == InitVocab /\ [][NextVocab]_vars

\* a header block is handed to HeaderMap::new and the map is queried
NewHeaderMap ==
    /\ pc = "hm_text"
    /\ result' = HeaderMap_new(buf)
    /\ pc' = "hm_built"
    /\ UNCHANGED <<builder, msg, buf, token, value, conn>>

GetHeader(key) ==
    /\ pc = "hm_built" /\ result.tag = "Ok"
    /\ token' = key
    /\ value' = [call |-> "get", ret |-> HeaderMap_get(result.val, key)]
    /\ UNCHANGED <<pc, builder, msg, buf, result, conn>>

ContainsHeader(key) ==
    /\ pc = "hm_built" /\ result.tag = "Ok"
    /\ token' = key
    /\ value' = [call |-> "contains", ret |-> HeaderMap_contains(result.val, key)]
    /\ UNCHANGED <<pc, builder, msg, buf, result, conn>>

LenHeaders ==
    /\ pc = "hm_built" /\ result.tag = "Ok"
    /\ token' = <<>>
    /\ value' = [call |-> "len", ret |-> HeaderMap_len(result.val)]
    /\ UNCHANGED <<pc, builder, msg, buf, result, conn>>

IsEmptyHeaders ==
    /\ pc = "hm_built" /\ result.tag = "Ok"
    /\ token' = <<>>
    /\ value' = [call |-> "is_empty", ret |-> HeaderMap_is_empty(result.val)]
    /\ UNCHANGED <<pc, builder, msg, buf, result, conn>>

InitHeaderMap ==
    /\ pc = "hm_text"
    /\ buf \in HeaderTexts
    /\ builder = NoBuilder
    /\ msg = NoMsg
    /\ result = NoResult
    /\ token = <<>>
    /\ value = NoResult
    /\ Unconnected

NextHeaderMap ==
    \/ NewHeaderMap
    \/ \E k \in LookupKeys : GetHeader(k)
    \/ \E k \in LookupKeys : ContainsHeader(k)
    \/ LenHeaders
    \/ IsEmptyHeaders

SpecHeaderMap == InitHeaderMap /\ [][NextHeaderMap]_vars

\* header blocks as HeaderMap::new takes them, and inside received buffers
InitHeaders == InitHeaderMap \/ InitReceive
NextHeaders == NextHeaderMap \/ NextReceive
SpecHeaders == InitHeaders /\ [][NextHeaders]_vars

\* a request or a response is built, serialized and parsed back
InitBuilders == InitRequest \/ InitResponse
NextBuilders == NextRequest \/ NextResponse
SpecBuilders == InitBuilders /\ [][NextBuilders]_vars

(***************************************************************************)
(* handle_connection (examples/tokio-hello-world.rs 23-70).  The handler   *)
(* is at "conn_read" (top of the 'read loop), at "conn_respond" (a request *)
(* was parsed), "conn_closed" (the client hung up) or "conn_panicked".     *)
(* Writes to the connection are taken to succeed.                          *)
(***************************************************************************)
\* the 400 the handler writes
BadRequestBytes == response_builder_finish(response_builder_new("BadRequest"), <<>>)

\* the client sends its next chunk
ClientSend ==
    /\ client.open /\ client.todo # <<>>
    /\ stream' = stream \o Head(client.todo)
    /\ client' = [client EXCEPT !.todo = Tail(@), !.sent = @ \o Head(client.todo)]
    /\ UNCHANGED <<pc, builder, msg, buf, result, token, value, buf_offset, written>>

\* a client that does not keep the connection open closes it when it is done
ClientClose ==
    /\ client.open /\ client.todo = <<>> /\ ~client.persistent
    /\ client' = [client EXCEPT !.open = FALSE]
    /\ UNCHANGED <<pc, builder, msg, buf, result, token, value, buf_offset, stream, written>>

\* lines 33-38: the buffer is full, 400 is written and the 'conn loop restarts
ReadFull ==
    /\ pc = "conn_read"
    /\ buf_offset >= Len(buf)
    /\ written' = Append(written, BadRequestBytes)
    /\ buf_offset' = 0
    /\ UNCHANGED <<pc, builder, msg, buf, result, token, value, stream, client>>

\* lines 40-55: read() returns the bytes that have arrived, as far as they
\* fit behind buf_offset, and the WHOLE buffer is handed to from_bytes
Read ==
    /\ pc = "conn_read"
    /\ buf_offset < Len(buf)
    /\ stream # <<>>
    /\ LET n == Min({Len(stream), Len(buf) - buf_offset})
           filled == Take(buf, buf_offset) \o Take(stream, n)
                         \o Drop(buf, buf_offset + n)
           parsed == Request_from_bytes(filled)
       IN  /\ buf' = filled
           /\ stream' = Drop(stream, n)
           /\ result' = parsed
           /\ CASE parsed.tag = "Ok" ->
                      /\ msg' = parsed.val
                      /\ pc' = "conn_respond"
                      /\ buf_offset' = buf_offset + n
                      /\ UNCHANGED written
                [] parsed = Err("NotEnoughData") ->
                      /\ buf_offset' = buf_offset + n
                      /\ UNCHANGED <<pc, msg, written>>
                [] parsed.tag = "Err" /\ parsed # Err("NotEnoughData") ->
                      /\ written' = Append(written, BadRequestBytes)
                      /\ buf_offset' = 0
                      /\ UNCHANGED <<pc, msg>>
                [] parsed.tag = "Panic" ->
                      /\ pc' = "conn_panicked"
                      /\ UNCHANGED <<msg, buf_offset, written>>
    /\ UNCHANGED <<builder, token, value, client>>

\* lines 40-42: read() returns 0 once the client has closed, the loop ends
ReadEof ==
    /\ pc = "conn_read"
    /\ buf_offset < Len(buf)
    /\ stream = <<>>
    /\ ~client.open
    /\ pc' = "conn_closed"
    /\ UNCHANGED <<builder, msg, buf, result, token, value, buf_offset, stream, client, written>>

\* lines 58-64: the router's response is written, the 'conn loop restarts
Respond ==
    /\ pc = "conn_respond"
    /\ LET response == router(msg)
       IN  \E order \in IterOrders(response_builder_header(response)) :
               written' = Append(written, response_builder_finish(response, order))
    /\ msg' = NoMsg
    /\ buf_offset' = 0
    /\ pc' = "conn_read"
    /\ UNCHANGED <<builder, buf, result, token, value, stream, client>>

Handler == ReadFull \/ Read \/ ReadEof \/ Respond

InitConnection ==
    /\ pc = "conn_read"
    /\ buf = [i \in 1..BufLen |-> 0]
    /\ buf_offset = 0
    /\ stream = <<>>
    /\ \E todo \in Scripts(MaxMessages), keep \in BOOLEAN :
           client = [todo |-> todo, sent |-> <<>>, open |-> TRUE, persistent |-> keep]
    /\ written = <<>>
    /\ builder = NoBuilder
    /\ msg = NoMsg
    /\ result = NoResult
    /\ token = <<>>
    /\ value = NoResult

NextConnection ==
    \/ ClientSend
    \/ ClientClose
    \/ ReadFull
    \/ Read
    \/ ReadEof
    \/ Respond

\* the runtime polls the handler's task whenever it can go on
SpecConnection == InitConnection /\ [][NextConnection]_vars /\ WF_vars(Handler)

Init == InitReceive
Next == NextReceive
Spec == SpecReceive

(***************************************************************************)
(* Vocabulary of the properties: the parts of a received buffer, read off  *)
(* the bytes.                                                              *)
(***************************************************************************)
NoBoundary(b) == \A i \in 1..(Len(b) - 3) : SubSeq(b, i, i + 3) # <<13, 10, 13, 10>>

HeaderRegion(b) == Take(b, Min({i \in 4..Len(b) : SubSeq(b, i - 3, i) = <<13, 10, 13, 10>>}))
BodyRegion(b) == Drop(b, Len(HeaderRegion(b)))
StartLine(b) == split_once(HeaderRegion(b), CRLF).val[1]
HeaderBlock(b) == split_once(HeaderRegion(b), CRLF).val[2]

\* the header lines all carry the delimiter and Content-Length, if any, is a number
WellFormedHeaders(b) ==
    /\ from_utf8_ok(HeaderRegion(b))
    /\ parse_headers(HeaderBlock(b)).tag = "Ok"
    /\ content_len_of(parse_headers(HeaderBlock(b)).val).some

\* the declared Content-Length, 0 when the header is absent
Declared(b) == content_len_of(parse_headers(HeaderBlock(b)).val).val

WellFormedRequestLine(b) ==
    LET t == split_whitespace(StartLine(b))
    IN  /\ Len(t) = 3
        /\ t[1] \in {GET, POST, PUT, DELETE}
        /\ t[3] \in {HTTP10, HTTP11, HTTP2, HTTP3}

StatusCodes == {Take(Status_to_static_str(st), 3) : st \in Status}

\* a valid version, then a status text "<code> <reason>"
VersionThenStatusText(b) ==
    LET vs == split_once(StartLine(b), SP)
    IN  /\ vs.some
        /\ trim(vs.val[1]) \in {HTTP10, HTTP11, HTTP2, HTTP3}
        /\ split_once(trim(vs.val[2]), SP).some

StatusCodeOf(b) == split_once(trim(split_once(StartLine(b), SP).val[2]), SP).val[1]

WellFormedStatusLine(b) == VersionThenStatusText(b) /\ StatusCodeOf(b) \in StatusCodes

\* the received buffer was parsed as a request / as a response
RequestParsed == pc = "req_parsed"
ResponseParsed == pc = "resp_parsed"

WellFormedRequestHead(b) ==
    ~NoBoundary(b) /\ WellFormedHeaders(b) /\ WellFormedRequestLine(b)

WellFormedResponseHead(b) ==
    ~NoBoundary(b) /\ WellFormedHeaders(b) /\ WellFormedStatusLine(b)

(***************************************************************************)
(* Properties.                                                             *)
(***************************************************************************)

\* C1: a request produced by a request builder's finish() (any method, version,
\* URI, headers, body), serialized with to_bytes and parsed with from_bytes,
\* comes back as Ok of the same request.
C1_RequestRoundTrip ==
    (pc = "req_done" /\ builder # NoBuilder) => result = Ok(msg)

\* C2: a response produced by ResponseBuilder::finish() (any status, version,
\* headers; body unset, empty or non-empty), serialized and parsed, comes back
\* as Ok of the same response.
C2_ResponseRoundTrip ==
    (pc = "resp_done" /\ builder # NoBuilder) => result = Ok(msg)

\* C3: a buffer with the boundary, a well-formed start line and headers and a
\* Content-Length n, followed by fewer than n bytes, makes from_bytes return
\* Err(NotEnoughData): no abort, no other error, no success.
C3_ShortBodyNotEnoughData ==
    /\ (RequestParsed /\ WellFormedRequestHead(buf)
            /\ Len(BodyRegion(buf)) < Declared(buf))
        => result = Err("NotEnoughData")
    /\ (ResponseParsed /\ WellFormedResponseHead(buf)
            /\ Len(BodyRegion(buf)) < Declared(buf))
        => result = Err("NotEnoughData")

\* C4: a complete well-formed message followed by extra bytes parses
\* successfully, the body being exactly the first Content-Length bytes after the
\* boundary.
C4_TrailingBytesIgnored ==
    /\ (RequestParsed /\ WellFormedRequestHead(buf)
            /\ Len(BodyRegion(buf)) > Declared(buf))
        => /\ result.tag = "Ok"
           /\ result.val.body = Take(BodyRegion(buf), Declared(buf))
    /\ (ResponseParsed /\ WellFormedResponseHead(buf)
            /\ Len(BodyRegion(buf)) > Declared(buf))
        => /\ result.tag = "Ok"
           /\ unwrap_or(result.val.body, <<>>) = Take(BodyRegion(buf), Declared(buf))

\* C5: a buffer holding no CR LF CR LF (empty, shorter than 4 bytes, malformed
\* or not UTF-8 included) makes Request::from_bytes and Response::from_bytes
\* return Err(NotEnoughData) and nothing else.
C5_MissingBoundary ==
    ((RequestParsed \/ ResponseParsed) /\ NoBoundary(buf))
        => result = Err("NotEnoughData")

\* C5 witness: a malformed, non-UTF-8 buffer of four or more bytes without the
\* boundary was parsed as a request and gave NotEnoughData.
C5_Witness ==
    /\ RequestParsed
    /\ NoBoundary(buf)
    /\ Len(buf) >= 4
    /\ ~from_utf8_ok(buf)
    /\ result = Err("NotEnoughData")

\* C6: when Request::from_bytes(b) returned Ok(r), parsing r.to_bytes() returns
\* Ok(r) again, whatever order the header map iterates in.
C6_ReparseParsedRequest ==
    (pc = "req_done" /\ builder = NoBuilder) => result = Ok(msg)

\* C7: finish() leaves a Content-Length header equal to the body length n when
\* n > 0 and no Content-Length header when n = 0 (body unset or set to empty),
\* whatever Content-Length the caller set; "Content-Length: 0" never appears.
C7_ContentLengthDerived ==
    /\ pc = "req_finished" =>
          IF msg.body = <<>> THEN CONTENT_LENGTH \notin DOMAIN msg.headers
          ELSE get(msg.headers, CONTENT_LENGTH) = Some(usize_to_string(Len(msg.body)))
    /\ pc = "resp_finished" =>
          IF unwrap_or(msg.body, <<>>) = <<>> THEN CONTENT_LENGTH \notin DOMAIN msg.header
          ELSE get(msg.header, CONTENT_LENGTH) = Some(usize_to_string(Len(msg.body.val)))

\* C8: for each of the twelve Status values s, parsing s.to_static_str() returns
\* Ok(s).
C8_StatusParseRenderInverse ==
    \A st \in Status :
        (pc = "status" /\ token = Status_to_static_str(st)) => value = Ok(st)

\* C9: Response::from_bytes on a buffer with the boundary whose start line has a
\* valid version and a status text with a code outside the enumerated ones
\* returns Err(InvalidHeader); it neither aborts nor returns Ok.
C9_UnrecognizedStatus ==
    (/\ ResponseParsed
     /\ ~NoBoundary(buf)
     /\ from_utf8_ok(HeaderRegion(buf))
     /\ VersionThenStatusText(buf)
     /\ StatusCodeOf(buf) \notin StatusCodes)
        => result = Err("InvalidHeader")

\* C10: Method and Version parsing inverts rendering on the closed sets, and
\* every other string (other case, surrounding whitespace, ...) is rejected
\* with Err(InvalidHeader).
C10_MethodVersionExact ==
    /\ pc = "method" =>
          /\ \A m \in Method : token = Method_to_static_str(m) => value = Ok(m)
          /\ token \notin {GET, POST, PUT, DELETE} => value = Err("InvalidHeader")
    /\ pc = "version" =>
          /\ \A v \in Version : token = Version_to_static(v) => value = Ok(v)
          /\ token \notin {HTTP10, HTTP11, HTTP2, HTTP3} => value = Err("InvalidHeader")

\* C10 witness: "GET" with a leading space was handed to Method::from_str and
\* rejected.
C10_Witness ==
    /\ pc = "method"
    /\ token = SP \o GET
    /\ value = Err("InvalidHeader")

\* the non-empty lines of a trimmed header block, and the name and value of one
LinesOf(block) == SelectSeq(split(trim(block), CRLF), NonEmpty)
NameOf(line) == split_once(line, COLON_SP).val[1]
ValueOf(line) == split_once(line, COLON_SP).val[2]
NamesOf(block) == {NameOf(LinesOf(block)[i]) : i \in 1..Len(LinesOf(block))}

\* the value of the last line of the block whose name is k
LastValueOf(block, k) ==
    LET lines == LinesOf(block)
        last == CHOOSE i \in 1..Len(lines) :
                    /\ NameOf(lines[i]) = k
                    /\ \A j \in 1..Len(lines) : NameOf(lines[j]) = k => j <= i
    IN  ValueOf(lines[last])

\* C11: on a block HeaderMap::new accepted, get(k) is the value of the last
\* line named k and None only when no line is named k, contains(k) agrees with
\* get(k), len() is the number of distinct names, and is_empty() is true only
\* for a block without header lines.
C11_HeaderMapLookup ==
    (pc = "hm_built" /\ result.tag = "Ok" /\ value # NoResult) =>
        /\ value.call = "get" =>
              value.ret = IF token \in NamesOf(buf)
                          THEN Some(LastValueOf(buf, token)) ELSE None
        /\ value.call = "contains" => value.ret = (token \in NamesOf(buf))
        /\ value.call = "len" => value.ret = Cardinality(NamesOf(buf))
        /\ value.call = "is_empty" => value.ret = (LinesOf(buf) = <<>>)

\* some non-empty line of the trimmed block lacks the delimiter ": "
LineWithoutDelimiter(block) ==
    \E i \in 1..Len(LinesOf(block)) : Find(LinesOf(block)[i], COLON_SP) = 0

\* from_bytes got as far as the header lines: boundary, UTF-8, valid start line
RequestHeaderStep ==
    /\ RequestParsed /\ ~NoBoundary(buf) /\ from_utf8_ok(HeaderRegion(buf))
    /\ WellFormedRequestLine(buf)

\* (for a response: the version and the status text of the start line parsed)
ResponseHeaderStep ==
    /\ ResponseParsed /\ ~NoBoundary(buf) /\ from_utf8_ok(HeaderRegion(buf))
    /\ LET vs == split_once(StartLine(buf), SP)
       IN  /\ vs.some
           /\ Version_from_str(trim(vs.val[1])).tag = "Ok"
           /\ Status_from_str(trim(vs.val[2])).tag = "Ok"

\* C12: HeaderMap::new and the header step of Request/Response::from_bytes
\* return Err(InvalidHeader) exactly when some non-empty line of the trimmed
\* header block lacks ": ", wherever that line stands; a block whose lines all
\* carry the delimiter is accepted (from_bytes then fails with InvalidHeader
\* only on a Content-Length that is not a number).
C12_HeadersAllOrNothing ==
    /\ pc = "hm_built" =>
          IF LineWithoutDelimiter(buf) THEN result = Err("InvalidHeader")
          ELSE result = Ok([inner |-> trim(buf)])
    /\ (RequestHeaderStep \/ ResponseHeaderStep) =>
          IF LineWithoutDelimiter(HeaderBlock(buf)) THEN result = Err("InvalidHeader")
          ELSE result = Err("InvalidHeader") =>
                   ~content_len_of(parse_headers(HeaderBlock(buf)).val).some

\* C12 witness: a request whose second header line lacks the delimiter, after a
\* first line that carries it, was rejected with InvalidHeader.
C12_Witness ==
    /\ RequestHeaderStep
    /\ Len(LinesOf(HeaderBlock(buf))) = 2
    /\ Find(LinesOf(HeaderBlock(buf))[1], COLON_SP) # 0
    /\ LinesOf(HeaderBlock(buf))[2] = <<75, 101, 121, 50>>   \* "Key2"
    /\ result = Err("InvalidHeader")

\* the whitespace-separated tokens of the start line of a buffer
StartTokens(b) == split_whitespace(StartLine(b))

\* C13: on a buffer with the boundary and a UTF-8 header region,
\* Request::from_bytes returns Err(InvalidHeader) whenever the start line does
\* not split on whitespace into exactly three tokens, or the first is not an
\* enumerated method, or the third is not an enumerated version; a request it
\* returns carries the method, the second token verbatim as URI, and the version.
C13_RequestStartLine ==
    (RequestParsed /\ ~NoBoundary(buf) /\ from_utf8_ok(HeaderRegion(buf))) =>
        LET t == StartTokens(buf)
        IN  IF \/ Len(t) # 3
               \/ t[1] \notin {GET, POST, PUT, DELETE}
               \/ t[3] \notin {HTTP10, HTTP11, HTTP2, HTTP3}
            THEN result = Err("InvalidHeader")
            ELSE result.tag = "Ok" =>
                    /\ Method_to_static_str(result.val.method) = t[1]
                    /\ result.val.uri = t[2]
                    /\ Version_to_static(result.val.version) = t[3]

\* C13 witness: a start line of four tokens, the first a method and the third a
\* version, was rejected with InvalidHeader.
C13_Witness ==
    /\ RequestParsed /\ ~NoBoundary(buf) /\ from_utf8_ok(HeaderRegion(buf))
    /\ Len(StartTokens(buf)) = 4
    /\ StartTokens(buf)[1] = GET
    /\ StartTokens(buf)[3] = HTTP11
    /\ result = Err("InvalidHeader")

\* C14: whenever from_bytes returns Ok(m), the length of m's body is the
\* integer value of m's Content-Length header when it has one, and the body is
\* empty (absent, for a response) when it has none.
C14_BodyLengthIsDeclared ==
    /\ (pc \in {"req_parsed", "req_done"} /\ result.tag = "Ok") =>
          LET m == result.val
          IN  IF CONTENT_LENGTH \in DOMAIN m.headers
              THEN usize_parse(m.headers[CONTENT_LENGTH]) = Some(Len(m.body))
              ELSE m.body = <<>>
    /\ (pc \in {"resp_parsed", "resp_done"} /\ result.tag = "Ok") =>
          LET m == result.val
          IN  IF CONTENT_LENGTH \in DOMAIN m.header
              THEN usize_parse(m.header[CONTENT_LENGTH])
                       = Some(Len(unwrap_or(m.body, <<>>)))
              ELSE m.body = None

\* C14 witness: a received request with a Content-Length header was parsed
\* into a request with a non-empty body.
C14_Witness ==
    /\ RequestParsed
    /\ result.tag = "Ok"
    /\ CONTENT_LENGTH \in DOMAIN result.val.headers
    /\ Len(result.val.body) > 0

\* c is the UTF-8 encoding of one Unicode scalar value (RFC 3629): the value
\* its payload bits spell needs that many bytes and is not a surrogate
IsScalarEncoding(c) ==
    LET n == Len(c)
        low(i) == c[i] - 128
        cp == CASE n = 1 -> c[1]
                [] n = 2 -> (c[1] - 192) * 64 + low(2)
                [] n = 3 -> (c[1] - 224) * 4096 + low(2) * 64 + low(3)
                [] n = 4 -> (c[1] - 240) * 262144 + low(2) * 4096 + low(3) * 64 + low(4)
    IN  /\ \A i \in 2..n : c[i] \in 128..191
        /\ CASE n = 1 -> c[1] \in 0..127
             [] n = 2 -> c[1] \in 192..223 /\ cp \in 128..2047
             [] n = 3 -> c[1] \in 224..239 /\ cp \in 2048..65535
                            /\ cp \notin 55296..57343
             [] n = 4 -> c[1] \in 240..247 /\ cp \in 65536..1114111

\* s is a concatenation of such encodings
IsUtf8Text(s) ==
    LET n == Len(s)
        ok[i \in 0..n] ==
            \/ i = n
            \/ \E k \in 1..4 : /\ i + k <= n
                               /\ IsScalarEncoding(SubSeq(s, i + 1, i + k))
                               /\ ok[i + k]
    IN  ok[0]

\* C15: on a buffer with the boundary, Request::from_bytes and
\* Response::from_bytes return Err(InvalidUtf8) exactly when the bytes up to
\* and including the first CR LF CR LF are not valid UTF-8: whatever the start
\* line and the header lines are, and whatever bytes follow the boundary.
C15_HeaderRegionDecoding ==
    ((RequestParsed \/ ResponseParsed) /\ ~NoBoundary(buf)) =>
        (result = Err("InvalidUtf8") <=> ~IsUtf8Text(HeaderRegion(buf)))

\* C15 witness: a request whose header region is both not UTF-8 and malformed
\* (a header line without delimiter) was answered with InvalidUtf8.
C15_Witness ==
    /\ RequestParsed /\ ~NoBoundary(buf)
    /\ ~IsUtf8Text(HeaderRegion(buf))
    /\ LineWithoutDelimiter(HeaderBlock(buf))
    /\ result = Err("InvalidUtf8")

\* what finish() gives when no setter was called
DefaultRequest(method) ==
    [version |-> "Http1", uri |-> SLASH, method |-> method,
     headers |-> <<>>, body |-> <<>>]

DefaultResponse(status) ==
    [version |-> "Http1", status |-> status, header |-> <<>>, body |-> None]

\* "GET / HTTP/1.1\r\n\r\n"
GetRootBytes ==
    <<71, 69, 84, 32, 47, 32, 72, 84, 84, 80, 47, 49, 46, 49, 13, 10, 13, 10>>

\* finish() has just produced msg from builder
FinishedRequest == pc = "req_finished"
FinishedResponse == pc = "resp_finished"

\* no setter was called: the defaults, and the bytes of the default GET request
DefaultsApplied ==
    /\ (FinishedRequest /\ builder = RequestBuilder_new(builder.method))
          => /\ msg = DefaultRequest(builder.method)
             /\ Version_to_static(msg.version) = HTTP11
    /\ (FinishedResponse /\ builder = ResponseBuilder_new(builder.status))
          => /\ msg = DefaultResponse(builder.status)
             /\ Version_to_static(msg.version) = HTTP11
    /\ (pc = "req_serialized" /\ builder = RequestBuilder_new("Get"))
          => buf = GetRootBytes
    /\ (pc = "req_done" /\ builder = RequestBuilder_new("Get"))
          => /\ buf = GetRootBytes
             /\ result = Ok(DefaultRequest("Get"))

\* version, URI, method / status and body come from their own setter alone
OwnFieldOnly ==
    /\ FinishedRequest =>
          /\ msg.method = builder.method
          /\ msg.version = unwrap_or(builder.version, "Http1")
          /\ msg.uri = unwrap_or(builder.uri, SLASH)
          /\ msg.body = unwrap_or(builder.body, <<>>)
    /\ FinishedResponse =>
          /\ msg.status = builder.status
          /\ msg.version = unwrap_or(builder.version, "Http1")
          /\ msg.body = builder.body

\* C16 as stated: without a setter finish() gives HTTP/1.1, no headers, an
\* empty body and the URI "/", Request::get().finish().to_bytes() is
\* "GET / HTTP/1.1\r\n\r\n" and parses back to the same request; a setter
\* overrides its own field only, so without a call of header() the message has no
\* headers.
C16_SettersLeaveDefaults ==
    /\ DefaultsApplied
    /\ OwnFieldOnly
    /\ (FinishedRequest /\ builder.headers = <<>>) => msg.headers = <<>>
    /\ (FinishedResponse /\ builder.header = <<>>) => msg.header = <<>>

\* C16, amended: as above, except that the headers of a message built with
\* body() may also hold the Content-Length entry finish() derives: apart from
\* Content-Length the headers are the ones set with header(), and
\* Content-Length is there only when body() was called.
C16_BuilderDefaults ==
    /\ DefaultsApplied
    /\ OwnFieldOnly
    /\ FinishedRequest =>
          /\ remove(msg.headers, CONTENT_LENGTH) = remove(builder.headers, CONTENT_LENGTH)
          /\ CONTENT_LENGTH \in DOMAIN msg.headers => builder.body.some
    /\ FinishedResponse =>
          /\ remove(msg.header, CONTENT_LENGTH) = remove(builder.header, CONTENT_LENGTH)
          /\ CONTENT_LENGTH \in DOMAIN msg.header => builder.body.some

\* C16 witness: a request finished after body() alone keeps the default
\* version and URI and carries the derived Content-Length as its only header.
C16_Witness ==
    /\ FinishedRequest
    /\ builder = [RequestBuilder_new("Get") EXCEPT !.body = Some(BodyOf(1))]
    /\ msg = [DefaultRequest("Get") EXCEPT
                 !.body = BodyOf(1),
                 !.headers = insert(<<>>, CONTENT_LENGTH, <<49>>)]

\* the client has sent one complete well-formed request, shorter than the read
\* buffer, has nothing more to send and keeps the connection open
OneRequestDelivered ==
    /\ client.open /\ client.persistent /\ client.todo = <<>>
    /\ Len(client.sent) < BufLen
    /\ WellFormedRequestHead(client.sent)
    /\ Len(BodyRegion(client.sent)) = Declared(client.sent)

\* the handler is blocked in read(): nothing has arrived that it has not read
WaitingForInput ==
    pc = "conn_read" /\ buf_offset < Len(buf) /\ stream = <<>>

\* the one thing written is a response that is not the 400
Answered == Len(written) = 1 /\ written[1] # BadRequestBytes

\* C17: once a client has sent one complete well-formed request shorter than
\* the read buffer and keeps the connection open without sending more, the
\* handler does not wait for more input before it has parsed the request and
\* written its response, and it has written no 400.
C17_CompleteRequestAnswered ==
    (OneRequestDelivered /\ WaitingForInput) => Answered

====
